---- MODULE Spec2Model ----
(***************************************************************************)
(* Model of the etesync_calendar component: the property-tree parser, the  *)
(* duration parser and the credential cache of helpers.py, and             *)
(* EteSyncEvent / EteSyncCalendar of calendar.py.                          *)
(*                                                                         *)
(* Python strings are sequences of one-character strings.  Python values   *)
(* stored in a dict are tagged records: Str (a str), Lst (a list), Dct (a  *)
(* dict, a function from keys to values).  A call that can raise returns   *)
(* a record with an err field naming the exception ("none" if it returns). *)
(***************************************************************************)
EXTENDS Integers, Sequences, FiniteSets, TLC

VARIABLES
    entries,        \* parse: the (key, value) entries handed to parse
    parsed,         \* parse: the outcome of parse(entries), NotRun before
    dur_parts, \* duration parsers: the components the text is written from
    dur_text,  \* duration parsers: the text handed to both copies
    dur_out,   \* duration parsers: the outcomes of both copies, NotRun before
    item,           \* EteSyncEvent: the raw item (the lines of event.content)
    event,          \* EteSyncEvent: the outcome of EteSyncEvent(item), NotRun before
    observed,       \* EteSyncEvent: the last property read or method called, and its outcome
    _raw_data,      \* EteSyncCalendar: the items of self._raw_data.collection
    _events,        \* EteSyncCalendar: self._events
    pc,             \* EteSyncCalendar.update: Idle, or the step of _build_events it is at
    prev_raw_data,  \* history: the items of the collection synced before the last one
    updates,        \* history: the number of update calls so far
    seen,           \* a reader: the last next_event / get_events_in_range and its outcome
    folder_exists,  \* the cache: os.path.exists(folder)
    file_t,         \* the cache: the file secret_check of the folder
    file_b,         \* the cache: the file secret_key of the folder
    cache_seen      \* the cache: the last two calls, their arguments and outcomes

vars == <<entries, parsed, dur_parts, dur_text, dur_out, item, event, observed,
          _raw_data, _events, pc, prev_raw_data, updates, seen,
          folder_exists, file_t, file_b, cache_seen>>
cache_vars == <<folder_exists, file_t, file_b, cache_seen>>
event_vars == <<item, event, observed>>
cal_vars == <<_raw_data, _events, pc, prev_raw_data, updates, seen>>
parse_vars == <<entries, parsed>>
dur_vars == <<dur_parts, dur_text, dur_out>>

NotRun == [err |-> "notrun"]

----------------------------------------------------------------------------
(* Python str primitives *)

UpperChars == <<"A","B","C","D","E","F","G","H","I","J","K","L","M",
                "N","O","P","Q","R","S","T","U","V","W","X","Y","Z">>
LowerChars == <<"a","b","c","d","e","f","g","h","i","j","k","l","m",
                "n","o","p","q","r","s","t","u","v","w","x","y","z">>

LowerChar(c) ==
    IF \E i \in 1..26 : UpperChars[i] = c
    THEN LowerChars[CHOOSE i \in 1..26 : UpperChars[i] = c]
    ELSE c

\* str.lower()
Lower(s) == [i \in 1..Len(s) |-> LowerChar(s[i])]

\* c in s
Contains(s, c) == \E i \in 1..Len(s) : s[i] = c

\* s.startswith(p)
StartsWith(s, p) == Len(s) >= Len(p) /\ SubSeq(s, 1, Len(p)) = p

\* index of the first / last c in s (c must occur)
FirstIndex(s, c) == CHOOSE i \in 1..Len(s) : s[i] = c /\ \A j \in 1..(i-1) : s[j] # c
LastIndex(s, c) == CHOOSE i \in 1..Len(s) : s[i] = c /\ \A j \in (i+1)..Len(s) : s[j] # c

\* s.split(c, 1): one or two parts
SplitFirst(s, c) ==
    IF Contains(s, c)
    THEN <<SubSeq(s, 1, FirstIndex(s, c) - 1), SubSeq(s, FirstIndex(s, c) + 1, Len(s))>>
    ELSE <<s>>

\* s.split(c)[-1]
AfterLast(s, c) ==
    IF Contains(s, c) THEN SubSeq(s, LastIndex(s, c) + 1, Len(s)) ELSE s

\* s.split(c): all parts
RECURSIVE SplitAll(_, _)
SplitAll(s, c) ==
    IF Contains(s, c)
    THEN <<SubSeq(s, 1, FirstIndex(s, c) - 1)>>
         \o SplitAll(SubSeq(s, FirstIndex(s, c) + 1, Len(s)), c)
    ELSE <<s>>

----------------------------------------------------------------------------
(* Python values and dicts *)

Str(s) == [t |-> "str", s |-> s]
Lst(l) == [t |-> "list", l |-> l]
Dct(d) == [t |-> "dict", d |-> d]

EmptyDict == <<>>

\* d[k] = v
Put(d, k, v) == [x \in (DOMAIN d) \cup {k} |-> IF x = k THEN v ELSE d[x]]

\* truth value of d.get(k): a missing key, '', [] and {} are all false
Truthy(d, k) ==
    /\ k \in DOMAIN d
    /\ CASE d[k].t = "str"  -> d[k].s # <<>>
         [] d[k].t = "list" -> d[k].l # <<>>
         [] d[k].t = "dict" -> DOMAIN d[k].d # {}

\* keys the parser compares against
K_begin    == <<"b","e","g","i","n">>
K_end      == <<"e","n","d">>
K_dtstart  == <<"d","t","s","t","a","r","t">>
K_dtend    == <<"d","t","e","n","d">>
K_rrule    == <<"r","r","u","l","e">>
K_timezone == <<"t","i","m","e","z","o","n","e">>
K_time     == <<"t","i","m","e">>

----------------------------------------------------------------------------
(* helpers.py: the property-tree parser *)

\* _parse_repeating: every ';' segment is split on its first '='; a segment
\* with no '=' makes split[1] raise IndexError
RECURSIVE ParseRepeatingLoop(_, _, _)
ParseRepeatingLoop(values, i, result) ==
    IF i > Len(values) THEN [err |-> "none", val |-> Dct(result)]
    ELSE LET split == SplitFirst(values[i], "=")
         IN  IF Len(split) < 2 THEN [err |-> "IndexError"]
             ELSE ParseRepeatingLoop(values, i + 1,
                      Put(result, Lower(split[1]), Str(Lower(split[2]))))

_parse_repeating(value) == ParseRepeatingLoop(SplitAll(value, ";"), 1, EmptyDict)

\* _parse_keyed_timezone: called with the already lower-cased key
_parse_keyed_timezone(key, value) ==
    IF ~Contains(key, ";") \/ ~Contains(key, "=")
    THEN <<key, Str(value)>>
    ELSE LET splitted == SplitFirst(key, ";")
             timezone == AfterLast(splitted[Len(splitted)], "=")
         IN  <<splitted[1],
               Dct(Put(Put(EmptyDict, K_timezone, Str(timezone)), K_time, Str(value)))>>

\* lines 39-47: the insertion of (key, value) into the scope's dict
Insert(result, key, value) ==
    IF Truthy(result, key)
    THEN IF result[key].t = "list"
         THEN Put(result, key, Lst(Append(result[key].l, value)))
         ELSE Put(result, key, Lst(<<result[key], value>>))
    ELSE Put(result, key, value)

\* a child that read a copy of the entries would leave the parent at the entry
\* after 'begin'
ResumeAtOwnCopy(i, child) == i + 1

\* line 28: the child call reads from the iterator of the parent, whose loop
\* goes on where the child stopped (i is where the parent read 'begin')
ResumeAt(i, child) == child.i

\* _parse: one scope, read from position i of the shared iterator; returns the
\* scope's dict and the position the iterator is left at
RECURSIVE ParseScope(_, _, _)
ParseScope(es, i, result) ==
    IF i > Len(es) THEN [err |-> "none", res |-> result, i |-> i]
    ELSE
    LET entry == es[i] IN
    IF Len(entry) # 2 THEN ParseScope(es, i + 1, result)
    ELSE
    LET key == Lower(entry[1])
        value == entry[2]
    IN
    IF key = K_begin
    THEN LET child == ParseScope(es, i + 1, EmptyDict)
         IN  IF child.err # "none" THEN child
             ELSE ParseScope(es, ResumeAt(i, child),
                             Put(result, Lower(value), Dct(child.res)))
    ELSE IF key = K_end
    THEN [err |-> "none", res |-> result, i |-> i + 1]
    ELSE
    LET kv == IF StartsWith(key, K_dtstart) \/ StartsWith(key, K_dtend)
              THEN _parse_keyed_timezone(key, value)
              ELSE <<key, Str(value)>>
        rep == IF kv[1] = K_rrule THEN _parse_repeating(value)
               ELSE [err |-> "none", val |-> kv[2]]
    IN  IF rep.err # "none" THEN [err |-> rep.err]
        ELSE ParseScope(es, i + 1, Insert(result, kv[1], rep.val))

_parse(es, i) == ParseScope(es, i, EmptyDict)

\* parse(entries): a fresh iterator over entries, one call of _parse
parse(es) ==
    LET r == _parse(es, 1)
    IN  IF r.err # "none" THEN [err |-> r.err] ELSE [err |-> "none", res |-> r.res]

----------------------------------------------------------------------------
(* datetime.timedelta: whole days and 0 <= seconds < 86400 (microseconds are
   always 0 here) *)

SecondsPerDay == 86400

\* timedelta(days=d, seconds=s)
timedelta(d, s) == [days |-> d + (s \div SecondsPerDay), seconds |-> s % SecondsPerDay]

\* Optional values
None == [some |-> FALSE]
Some(v) == [some |-> TRUE, v |-> v]

----------------------------------------------------------------------------
(* The ISO 8601 duration parser, in its two copies *)

Digits == <<"0","1","2","3","4","5","6","7","8","9">>

\* str.isnumeric() of one character
IsNumeric(c) == \E i \in 1..10 : Digits[i] = c

DigitValue(c) == (CHOOSE i \in 1..10 : Digits[i] = c) - 1

\* int(number) of a string of digits; int('') raises ValueError (see Qualifier)
RECURSIVE IntOf(_)
IntOf(number) ==
    IF number = <<>> THEN 0
    ELSE 10 * IntOf(SubSeq(number, 1, Len(number) - 1)) + DigitValue(number[Len(number)])

Qualifiers == {"Y", "W", "D", "H", "M", "S"}

\* the locals of the scan before the loop
ScanStart ==
    [err |-> "none", period |-> FALSE, number |-> <<>>,
     years |-> 0, months |-> 0, weeks |-> 0, days |-> 0,
     hours |-> 0, minutes |-> 0, seconds |-> 0]

\* the body of `if char in qualifiers`: the number read so far goes to the
\* field of the qualifier, M being months in the period part and minutes after T
Qualifier(st, char) ==
    IF st.number = <<>> THEN [st EXCEPT !.err = "ValueError"]
    ELSE LET n == IntOf(st.number)
             set == CASE char = "Y" -> [st EXCEPT !.years = n]
                      [] char = "W" -> [st EXCEPT !.weeks = n]
                      [] char = "D" -> [st EXCEPT !.days = n]
                      [] char = "H" -> [st EXCEPT !.hours = n]
                      [] char = "S" -> [st EXCEPT !.seconds = n]
                      [] char = "M" -> IF st.period THEN [st EXCEPT !.months = n]
                                       ELSE [st EXCEPT !.minutes = n]
         IN  [set EXCEPT !.number = <<>>]

\* one pass of the loop `for char in duration_text`
ScanChar(st, char) ==
    IF char = "P" THEN [st EXCEPT !.period = TRUE]
    ELSE IF char = "T" THEN [st EXCEPT !.period = FALSE]
    ELSE IF char \in Qualifiers THEN Qualifier(st, char)
    ELSE IF IsNumeric(char) THEN [st EXCEPT !.number = Append(st.number, char)]
    ELSE st

\* helpers.parse_iso8601_duration: the loop over the text
RECURSIVE HelperScan(_, _, _)
HelperScan(text, i, st) ==
    IF i > Len(text) \/ st.err # "none" THEN st
    ELSE HelperScan(text, i + 1, ScanChar(st, text[i]))

\* a total of the days alone, years and weeks left out
HelperTotalNoYearsWeeks(st) ==
    timedelta(st.days, st.hours * 60 * 60 + st.minutes * 60 + st.seconds)

\* helpers.py 165-167: the total
HelperTotal(st) ==
    timedelta(st.years * 365 + st.weeks * 7 + st.days,
              st.hours * 60 * 60 + st.minutes * 60 + st.seconds)

\* helpers.parse_iso8601_duration(duration_text: Optional[str])
parse_iso8601_duration(duration_text) ==
    IF duration_text = None THEN [err |-> "none", val |-> None]
    ELSE LET st == HelperScan(duration_text.v, 1, ScanStart)
         IN  IF st.err # "none" THEN [err |-> st.err]
             ELSE [err |-> "none", val |-> HelperTotal(st)]

\* EteSyncEvent._parse_duration: the loop over the text
RECURSIVE EventScan(_, _, _)
EventScan(text, i, st) ==
    IF i > Len(text) \/ st.err # "none" THEN st
    ELSE EventScan(text, i + 1, ScanChar(st, text[i]))

\* calendar.py 547-549: the total
EventTotal(st) ==
    timedelta(st.years * 365 + st.weeks * 7 + st.days,
              st.hours * 60 * 60 + st.minutes * 60 + st.seconds)

\* EteSyncEvent._parse_duration(duration_text: str); it has no None check, and
\* iterating None raises TypeError
_parse_duration(duration_text) ==
    IF duration_text = None THEN [err |-> "TypeError"]
    ELSE LET st == EventScan(duration_text.v, 1, ScanStart)
         IN  IF st.err # "none" THEN [err |-> st.err]
             ELSE [err |-> "none", val |-> EventTotal(st)]

----------------------------------------------------------------------------
(* datetime.datetime and datetime.timedelta arithmetic.  A datetime is the
   proleptic Gregorian ordinal of its date and the seconds of its time of day;
   every timezone name stands for one and the same zone, so that aware
   datetimes compare as their wall-clock values do; microseconds are left
   out (time.max is 23:59:59) *)

IsLeap(y) == y % 4 = 0 /\ (y % 100 # 0 \/ y % 400 = 0)

DaysInMonth(y, m) ==
    CASE m \in {1, 3, 5, 7, 8, 10, 12} -> 31
      [] m \in {4, 6, 9, 11} -> 30
      [] m = 2 -> IF IsLeap(y) THEN 29 ELSE 28

DaysBeforeYear(y) ==
    (y - 1) * 365 + ((y - 1) \div 4) - ((y - 1) \div 100) + ((y - 1) \div 400)

RECURSIVE DaysBeforeMonth(_, _)
DaysBeforeMonth(y, m) ==
    IF m = 1 THEN 0 ELSE DaysBeforeMonth(y, m - 1) + DaysInMonth(y, m - 1)

\* date(y, m, d).toordinal()
ToOrdinal(y, m, d) == DaysBeforeYear(y) + DaysBeforeMonth(y, m) + d

\* date.fromordinal(n), as [year, month, day]
FromOrdinal(n) ==
    LET y == CHOOSE yy \in ((n \div 366) + 1)..((n \div 365) + 1) :
                 DaysBeforeYear(yy) < n /\ n <= DaysBeforeYear(yy + 1)
        r == n - DaysBeforeYear(y)
        m == CHOOSE mm \in 1..12 :
                 DaysBeforeMonth(y, mm) < r /\ r <= DaysBeforeMonth(y, mm) + DaysInMonth(y, mm)
    IN  [year |-> y, month |-> m, day |-> r - DaysBeforeMonth(y, m)]

\* time.min and time.max, in seconds of the day
time_min == 0
time_max == SecondsPerDay - 1

\* datetime.min and datetime.max
datetime_min == [days |-> 1, secs |-> 0]
datetime_max == [days |-> ToOrdinal(9999, 12, 31), secs |-> time_max]

\* timedelta.min and timedelta.max
timedelta_min == [days |-> 0 - 999999999, seconds |-> 0]
timedelta_max == [days |-> 999999999, seconds |-> SecondsPerDay - 1]

\* a < b of datetimes
DtLess(a, b) == a.days < b.days \/ (a.days = b.days /\ a.secs < b.secs)

\* a < b of timedeltas
TdLess(a, b) == a.days < b.days \/ (a.days = b.days /\ a.seconds < b.seconds)

\* a - b of datetimes: a timedelta
DtSub(a, b) == timedelta(a.days - b.days, a.secs - b.secs)

\* dt + td
DtAdd(dt, td) ==
    [days |-> dt.days + td.days + ((dt.secs + td.seconds) \div SecondsPerDay),
     secs |-> (dt.secs + td.seconds) % SecondsPerDay]

\* dt + relativedelta(months=n): the month moves on, the day is cut to the
\* length of the month reached
AddMonths(dt, n) ==
    LET c == FromOrdinal(dt.days)
        mi == (c.year * 12 + (c.month - 1)) + n
        y == mi \div 12
        m == (mi % 12) + 1
        d == IF c.day > DaysInMonth(y, m) THEN DaysInMonth(y, m) ELSE c.day
    IN  [days |-> ToOrdinal(y, m, d), secs |-> dt.secs]

\* the intervals of a recurrence: a timedelta, or a relativedelta of months
FixedInterval(td) == [kind |-> "timedelta", td |-> td, months |-> 0]
MonthsInterval(n) == [kind |-> "relativedelta", td |-> timedelta(0, 0), months |-> n]

\* start + interval
AddInterval(dt, interval) ==
    IF interval.kind = "timedelta" THEN DtAdd(dt, interval.td)
    ELSE AddMonths(dt, interval.months)

----------------------------------------------------------------------------
(* calendar.py: EteSyncEvent.  An event is [raw, _event]: the raw item (its
   lines) and the dict parse made of it.  A property or method returns
   [err |-> "none", val |-> v], or [err |-> e] when it raises e *)

K_vcalendar == <<"v","c","a","l","e","n","d","a","r">>
K_vevent    == <<"v","e","v","e","n","t">>
K_summary   == <<"s","u","m","m","a","r","y">>
K_duration  == <<"d","u","r","a","t","i","o","n">>
K_freq      == <<"f","r","e","q">>
F_daily     == <<"d","a","i","l","y">>
F_weekly    == <<"w","e","e","k","l","y">>
F_monthly   == <<"m","o","n","t","h","l","y">>
F_yearly    == <<"y","e","a","r","l","y">>

Ok(v) == [err |-> "none", val |-> v]
Raise(e) == [err |-> e]

\* d.get(k)
Get(d, k) == IF k \in DOMAIN d THEN Some(d[k]) ELSE None

\* line.split(':', 1) of every line of event.content, then parse (__init__);
\* an exception of parse leaves __init__ and no event is made
EteSyncEvent(raw) ==
    LET properties == [i \in 1..Len(raw) |-> SplitFirst(raw[i], ":")]
        r == parse(properties)
    IN  IF r.err # "none" THEN Raise(r.err)
        ELSE Ok([raw |-> raw, _event |-> r.res])

\* self._event['vcalendar']['vevent'] can be read
HasVEvent(self) ==
    /\ K_vcalendar \in DOMAIN self._event
    /\ self._event[K_vcalendar].t = "dict"
    /\ K_vevent \in DOMAIN self._event[K_vcalendar].d
    /\ self._event[K_vcalendar].d[K_vevent].t = "dict"

VEvent(self) == self._event[K_vcalendar].d[K_vevent].d

\* summary
summary(self) ==
    IF ~HasVEvent(self) THEN Raise("KeyError")
    ELSE IF K_summary \in DOMAIN VEvent(self) THEN Ok(VEvent(self)[K_summary])
         ELSE Ok(Str(<<>>))

\* is_recurring
is_recurring(self) == K_rrule \in DOMAIN VEvent(self)

\* _get_time
_get_time(self, name) == Get(VEvent(self), name)

\* add_timezone: the datetime made aware (all zones are one zone here)
add_timezone(dt, tz) == dt

\* s[a:b]
Slice(str, a, b) == SubSeq(str, a + 1, IF b < Len(str) THEN b ELSE Len(str))

\* int(s) returns: s is a non-empty string of digits
IntOk(str) == str # <<>> /\ \A i \in 1..Len(str) : IsNumeric(str[i])

\* _parse_date_time, lines 479-490: the datetime of the ordinal of the date
\* and the fields of the time, all empty for a date
MakeDateTime(ordinal, hours, minutes, seconds, timezone, is_start) ==
    IF hours = <<>> /\ minutes = <<>> /\ seconds = <<>>
    THEN Ok(Some(add_timezone([days |-> ordinal,
                               secs |-> IF is_start THEN time_min ELSE time_max],
                              timezone)))
    ELSE IF ~(IntOk(hours) /\ IntOk(minutes) /\ IntOk(seconds)) THEN Raise("ValueError")
    ELSE IF ~(IntOf(hours) \in 0..23 /\ IntOf(minutes) \in 0..59 /\ IntOf(seconds) \in 0..59)
    THEN Raise("ValueError")
    ELSE Ok(Some(add_timezone([days |-> ordinal,
                               secs |-> IntOf(hours) * 3600 + IntOf(minutes) * 60
                                        + IntOf(seconds)],
                              timezone)))

\* int(year), int(month), int(day) and the date of them; a date that does
\* not exist raises ValueError
MakeDate(y, m, d, hours, minutes, seconds, timezone, is_start) ==
    IF ~(y \in 1..9999 /\ m \in 1..12) THEN Raise("ValueError")
    ELSE IF ~(d \in 1..DaysInMonth(y, m)) THEN Raise("ValueError")
    ELSE MakeDateTime(ToOrdinal(y, m, d), hours, minutes, seconds, timezone, is_start)

\* _parse_date_time, lines 471-477: the fields cut out of the text
ParseFields(year, month, day, hours, minutes, seconds, timezone, is_start) ==
    IF ~(IntOk(year) /\ IntOk(month) /\ IntOk(day)) THEN Raise("ValueError")
    ELSE MakeDate(IntOf(year), IntOf(month), IntOf(day),
                  hours, minutes, seconds, timezone, is_start)

\* _parse_date_time(raw_datetime, timezone, is_start)
_parse_date_time(raw_datetime, timezone, is_start) ==
    IF raw_datetime = <<>> THEN Ok(None)
    ELSE ParseFields(Slice(raw_datetime, 0, 4), Slice(raw_datetime, 4, 6),
                     Slice(raw_datetime, 6, 8), Slice(raw_datetime, 9, 11),
                     Slice(raw_datetime, 11, 13), Slice(raw_datetime, 13, 15),
                     timezone, is_start)

\* lines 276-278 and 297-299: the sentinel when the parse gives None
OrSentinel(time, sentinel) ==
    IF time.err # "none" THEN time
    ELSE IF time.val = None THEN Ok(sentinel)
    ELSE Ok(time.val.v)

\* lines 273-278 and 294-299: timeobj.get('timezone'), timeobj['time'], the
\* parse, and the sentinel.  Only a dict has .get: None, a str and a list
\* raise AttributeError
TimeOf(timeobj, is_start, sentinel) ==
    IF timeobj = None \/ timeobj.v.t # "dict" THEN Raise("AttributeError")
    ELSE IF K_time \notin DOMAIN timeobj.v.d THEN Raise("KeyError")
    ELSE OrSentinel(_parse_date_time(timeobj.v.d[K_time].s,
                                     Get(timeobj.v.d, K_timezone), is_start),
                    sentinel)

\* start
start(self) ==
    IF ~HasVEvent(self) THEN Raise("KeyError")
    ELSE TimeOf(_get_time(self, K_dtstart), TRUE, add_timezone(datetime_max, "utc"))

\* lines 289 and 313: `start.time == datetime.time.min` compares the bound
\* method datetime.time with a time object, which is never equal
TimeMethodEquals(dt, t) == FALSE

\* end, lines 288-292: no dtend
EndOfStart(st) ==
    IF st.err # "none" THEN st
    ELSE IF TimeMethodEquals(st.val, time_min)
    THEN Ok([days |-> st.val.days, secs |-> time_max])
    ELSE Ok(add_timezone(datetime_min, "utc"))

\* end
end(self) ==
    IF ~HasVEvent(self) THEN Raise("KeyError")
    ELSE IF _get_time(self, K_dtend) = None THEN EndOfStart(start(self))
    ELSE TimeOf(_get_time(self, K_dtend), FALSE, add_timezone(datetime_min, "utc"))

OkSome(d) == IF d.err # "none" THEN d ELSE Ok(Some(d.val))

\* duration: None without a duration property
duration(self) ==
    IF ~HasVEvent(self) THEN Raise("KeyError")
    ELSE IF Get(VEvent(self), K_duration) = None THEN Ok(None)
    ELSE OkSome(_parse_duration(Some(VEvent(self)[K_duration].s)))

\* is_all_day, line 313, of the outcomes of start and end; `and` reads end
\* only when the test of start is true
AllDayOf(st, en) ==
    IF st.err # "none" THEN st
    ELSE IF ~TimeMethodEquals(st.val, time_min) THEN Ok(FALSE)
    ELSE IF en.err # "none" THEN en
    ELSE Ok(TimeMethodEquals(en.val, time_max))

\* is_all_day
is_all_day(self) == AllDayOf(start(self), end(self))

\* datetime_in_event, lines 324-329, of the outcomes of start and end
InEvent(st, en, dt) ==
    IF st.err # "none" THEN st
    ELSE IF en.err # "none" THEN en
    ELSE Ok(~DtLess(dt, st.val) /\ DtLess(dt, en.val))

\* datetime_in_event
datetime_in_event(self, dt) == InEvent(start(self), end(self), dt)

\* self._event['vcalendar']['vevent']['rrule']['freq']
Frequency(self) ==
    LET rrule == VEvent(self)[K_rrule] IN
    IF rrule.t # "dict" THEN Raise("TypeError")
    ELSE IF K_freq \notin DOMAIN rrule.d THEN Raise("KeyError")
    ELSE Ok(rrule.d[K_freq].s)

\* best_delta: timedelta.seconds is the seconds field, never negative, so
\* the test for two negatives is never true
best_delta(left, right) ==
    LET left_sec == left.seconds
        right_sec == right.seconds
    IN  IF left_sec < 0 /\ right_sec < 0
        THEN (IF left_sec > right_sec THEN left ELSE right)
        ELSE IF left_sec > 0 /\ right_sec > 0
        THEN (IF left_sec > right_sec THEN right ELSE left)
        ELSE IF left_sec > 0 THEN left
        ELSE right

\* start + duration; duration None raises TypeError
AddDuration(dt, dur) ==
    IF dur = None THEN Raise("TypeError") ELSE Ok(DtAdd(dt, dur.v))

\* delta, lines 365-372: an occurrence that ended before dt
RECURSIVE DeltaLoop(_, _, _, _, _, _)
DeltaPast(st2, en, dt, interval, dur, event_end, best2) ==
    IF DtLess(event_end, st2) THEN Ok(best2)
    ELSE DeltaLoop(st2, dt, interval, dur, event_end, best2)

\* delta, lines 360-369: the occurrence that starts at st2 and ends at en
DeltaOccurrence(st2, en, dt, interval, dur, event_end, best) ==
    IF en.err # "none" THEN en
    ELSE IF DtLess(dt, en.val) THEN Ok(timedelta(0, 0))
    ELSE DeltaPast(st2, en, dt, interval, dur, event_end,
                   best_delta(best, best_delta(DtSub(st2, dt), DtSub(en.val, dt))))

\* delta, line 359: the next occurrence
DeltaNext(st2, dt, interval, dur, event_end, best) ==
    DeltaOccurrence(st2, AddDuration(st2, dur), dt, interval, dur, event_end, best)

\* delta, lines 356-374: the loop over the occurrences
DeltaLoop(st, dt, interval, dur, event_end, best) ==
    IF ~DtLess(st, dt) THEN Ok(best)
    ELSE DeltaNext(AddInterval(st, interval), dt, interval, dur, event_end, best)

\* delta, lines 339-349: the interval of a frequency
DeltaInterval(frequency) ==
    CASE frequency = F_daily -> Some(FixedInterval(timedelta(1, 0)))
      [] frequency = F_weekly -> Some(FixedInterval(timedelta(7, 0)))
      [] frequency = F_monthly -> Some(MonthsInterval(1))
      [] frequency = F_yearly -> Some(MonthsInterval(12))
      [] OTHER -> None

\* delta, lines 376-381: an event that does not recur, of the outcomes of
\* datetime_in_event, start and end
DeltaSingleOf(inev, st, en, dt) ==
    IF inev.err # "none" THEN inev
    ELSE IF inev.val THEN Ok(timedelta(0, 0))
    ELSE IF DtLess(st.val, dt) THEN Ok(DtSub(st.val, dt))
    ELSE Ok(DtSub(en.val, dt))

DeltaSingle(st, en, dt) == DeltaSingleOf(InEvent(st, en, dt), st, en, dt)

\* delta, lines 337-374: an event that recurs, of the outcomes of the
\* properties read
DeltaRecurringOf(interval, st, event_end, dur, dt) ==
    IF interval = None THEN Ok(timedelta_min)
    ELSE IF st.err # "none" THEN st
    ELSE IF event_end.err # "none" THEN event_end
    ELSE IF dur.err # "none" THEN dur
    ELSE DeltaLoop(st.val, dt, interval.v, dur.val, event_end.val, timedelta_min)

DeltaRecurring(frequency, st, event_end, dur, dt) ==
    IF frequency.err # "none" THEN frequency
    ELSE DeltaRecurringOf(DeltaInterval(frequency.val), st, event_end, dur, dt)

DeltaOf(self, st, en, dt) ==
    IF is_recurring(self)
    THEN DeltaRecurring(Frequency(self), st, en, duration(self), dt)
    ELSE DeltaSingle(st, en, dt)

\* delta(dt)
delta(self, dt) ==
    IF ~HasVEvent(self) THEN Raise("KeyError")
    ELSE DeltaOf(self, start(self), end(self), dt)

\* is_in_range, lines 421-447: with a range longer than the frequency's days
\* the answer is True at once; else the interval of the loop; None for a
\* frequency that is not supported
RangeInterval(frequency, difference) ==
    CASE frequency = F_daily ->
            IF difference.days > 1 THEN [now |-> TRUE]
            ELSE [now |-> FALSE, interval |-> Some(FixedInterval(timedelta(1, 0)))]
      [] frequency = F_weekly ->
            IF difference.days > 7 THEN [now |-> TRUE]
            ELSE [now |-> FALSE, interval |-> Some(FixedInterval(timedelta(7, 0)))]
      [] frequency = F_monthly ->
            IF difference.days > 31 THEN [now |-> TRUE]
            ELSE [now |-> FALSE, interval |-> Some(MonthsInterval(1))]
      [] frequency = F_yearly ->
            IF difference.days > 365 THEN [now |-> TRUE]
            ELSE [now |-> FALSE, interval |-> Some(MonthsInterval(12))]
      [] OTHER -> [now |-> FALSE, interval |-> None]

\* lines 454 and 459: the test of one occurrence against the range
RangeTest(st, en, start_date, end_date) ==
    DtLess(end_date, st) /\ DtLess(en, start_date)

\* is_in_range, lines 453-456: the occurrence that starts at st and ends at en
RECURSIVE RangeLoop(_, _, _, _, _)
RangeOccurrence(st, en, start_date, end_date, dur, interval) ==
    IF en.err # "none" THEN en
    ELSE IF RangeTest(st, en.val, start_date, end_date) THEN Ok(TRUE)
    ELSE RangeLoop(AddInterval(st, interval), start_date, end_date, dur, interval)

\* is_in_range, lines 452-457: the loop over the occurrences
RangeLoop(st, start_date, end_date, dur, interval) ==
    IF ~DtLess(st, end_date) THEN Ok(FALSE)
    ELSE RangeOccurrence(st, AddDuration(st, dur), start_date, end_date, dur, interval)

\* is_in_range, line 459: an event that does not recur; `and` reads end only
\* when the test of start is true
RangeSingle(st, en, start_date, end_date) ==
    IF st.err # "none" THEN st
    ELSE IF ~DtLess(end_date, st.val) THEN Ok(FALSE)
    ELSE IF en.err # "none" THEN en
    ELSE Ok(RangeTest(st.val, en.val, start_date, end_date))

\* is_in_range, lines 419-457: an event that recurs
RangeRecurringOf(ri, st, dur, start_date, end_date) ==
    IF ri.now THEN Ok(TRUE)
    ELSE IF ri.interval = None THEN Ok(FALSE)
    ELSE IF st.err # "none" THEN st
    ELSE IF dur.err # "none" THEN dur
    ELSE RangeLoop(st.val, start_date, end_date, dur.val, ri.interval.v)

RangeRecurring(frequency, st, dur, start_date, end_date) ==
    IF frequency.err # "none" THEN frequency
    ELSE RangeRecurringOf(RangeInterval(frequency.val, DtSub(end_date, start_date)),
                          st, dur, start_date, end_date)

\* is_in_range(start_date, end_date)
is_in_range(self, start_date, end_date) ==
    IF ~HasVEvent(self) THEN Raise("KeyError")
    ELSE IF is_recurring(self)
    THEN RangeRecurring(Frequency(self), start(self), duration(self), start_date, end_date)
    ELSE RangeSingle(start(self), end(self), start_date, end_date)

----------------------------------------------------------------------------
(* calendar.py: EteSyncCalendar *)

\* list.sort(key=lambda e: e.start), line 188: a stable sort on the keys;
\* the event with key k is put behind the events of the sorted list whose
\* keys are no later.  The lists hold [key, e]
RECURSIVE InsertByKey(_, _)
InsertByKey(sorted, ke) ==
    IF sorted = <<>> THEN <<ke>>
    ELSE IF DtLess(ke.key.val, Head(sorted).key.val)
         THEN <<ke>> \o sorted
         ELSE <<Head(sorted)>> \o InsertByKey(Tail(sorted), ke)

RECURSIVE SortLoop(_, _)
SortLoop(keyed, sorted) ==
    IF keyed = <<>> THEN sorted
    ELSE SortLoop(Tail(keyed), InsertByKey(sorted, Head(keyed)))

\* the sort raises what a key raises, and then leaves the list as it was
SortKeyed(keyed) ==
    IF \E i \in 1..Len(keyed) : keyed[i].key.err # "none"
    THEN Raise(keyed[CHOOSE i \in 1..Len(keyed) :
                        /\ keyed[i].key.err # "none"
                        /\ \A j \in 1..(i-1) : keyed[j].key.err = "none"].key.err)
    ELSE Ok([i \in 1..Len(keyed) |-> SortLoop(keyed, <<>>)[i].e])

SortByStart(list) ==
    SortKeyed([i \in 1..Len(list) |-> [key |-> start(list[i]), e |-> list[i]]])

\* get_events_in_range, lines 195-196: one pass of the loop, r the outcome of
\* is_in_range
RECURSIVE RangeFilter(_, _, _, _)
RangeFilterStep(r, list, start_date, end_date, events) ==
    IF r.err # "none" THEN r
    ELSE RangeFilter(Tail(list), start_date, end_date,
                     IF r.val THEN Append(events, Head(list)) ELSE events)

\* get_events_in_range: the events is_in_range is true of, in list order
RangeFilter(list, start_date, end_date, events) ==
    IF list = <<>> THEN Ok(events)
    ELSE RangeFilterStep(is_in_range(Head(list), start_date, end_date),
                         list, start_date, end_date, events)

get_events_in_range(list, start_date, end_date) ==
    RangeFilter(list, start_date, end_date, <<>>)

\* next_event, lines 214-221: one pass of the loop, d the outcome of delta.
\* An event whose delta has seconds == 0 is returned at once; any other
\* delta has seconds > 0
RECURSIVE NextEventLoop(_, _, _, _)
NextEventStep(d, list, now, the_next_event, best) ==
    IF d.err # "none" THEN d
    ELSE IF d.val.seconds = 0 THEN Ok(Some(Head(list)))
    ELSE IF d.val.seconds > 0 /\ TdLess(d.val, best)
    THEN NextEventLoop(Tail(list), now, Some(Head(list)), d.val)
    ELSE NextEventLoop(Tail(list), now, the_next_event, best)

NextEventLoop(list, now, the_next_event, best) ==
    IF list = <<>> THEN Ok(the_next_event)
    ELSE NextEventStep(delta(Head(list), now), list, now, the_next_event, best)

\* next_event, with now for datetime.now()
next_event(list, now) == NextEventLoop(list, now, None, timedelta_max)

----------------------------------------------------------------------------
(* helpers.py: the credential cache.  A file of the folder is Missing, or
   File(data, ok): its content, and whether open() is permitted on it (open
   raises IOError on a file that is missing or not permitted).  The text file
   holds characters, the key file holds bytes *)

Missing == [exists |-> FALSE]
File(data, ok) == [exists |-> TRUE, data |-> data, ok |-> ok]

NL == "\n"

\* the characters str.strip() removes
Whitespace == {" ", NL, "\t", "\r"}

\* s.strip()
strip(s) ==
    IF \A i \in 1..Len(s) : s[i] \in Whitespace THEN <<>>
    ELSE SubSeq(s,
                CHOOSE i \in 1..Len(s) :
                    s[i] \notin Whitespace /\ \A j \in 1..(i-1) : s[j] \in Whitespace,
                CHOOSE i \in 1..Len(s) :
                    s[i] \notin Whitespace /\ \A j \in (i+1)..Len(s) : s[j] \in Whitespace)

\* sep.join(parts)
RECURSIVE join(_, _)
join(sep, parts) ==
    IF parts = <<>> THEN <<>>
    ELSE IF Len(parts) = 1 THEN parts[1]
    ELSE parts[1] \o <<sep>> \o join(sep, Tail(parts))

\* stream.readline() at position pos of data: the line with its newline, or
\* the rest of the data, and the position after it
LineEnd(data, pos) ==
    IF \E i \in (pos+1)..Len(data) : data[i] = NL
    THEN CHOOSE i \in (pos+1)..Len(data) :
            data[i] = NL /\ \A j \in (pos+1)..(i-1) : data[j] # NL
    ELSE Len(data)

readline(data, pos) ==
    [line |-> SubSeq(data, pos + 1, LineEnd(data, pos)), pos |-> LineEnd(data, pos)]

\* open(file) raises IOError: to read, on a file that is missing or not
\* permitted; to write, on a file that is there and not permitted
ReadRaises(file) == ~file.exists \/ ~file.ok
WriteRaises(file) == file.exists /\ ~file.ok

\* read_from_cache, lines 82-85: the three lines of the text, stripped
ReadText(data, l1, l2, l3) == <<strip(l1.line), strip(l2.line), strip(l3.line)>>

ReadLines3(data, l1, l2) == ReadText(data, l1, l2, readline(data, l2.pos))
ReadLines2(data, l1) == ReadLines3(data, l1, readline(data, l1.pos))
ReadLines(data) == ReadLines2(data, readline(data, 0))

\* read_from_cache, line 89: what the handler of IOError leaves of the text
\* file
KeptOnError(t) == t
RemovedOnError(t) == Missing

\* read_from_cache(folder) on the files t (text) and b (key): the value
\* returned and the text file it leaves
read_from_cache(t, b) ==
    IF ~t.exists THEN [out |-> None, file_t |-> t]
    ELSE IF ReadRaises(t) \/ ReadRaises(b)
    THEN [out |-> None, file_t |-> RemovedOnError(t)]
    ELSE [out |-> Some(ReadLines(t.data) \o <<b.data>>), file_t |-> t]

\* write_to_cache(folder, url, username, password, cipher_key) on the files t
\* and b: the files it leaves, and whether it logged the warning of line 105.
\* The text is written before the key file is opened
write_to_cache(t, b, url, username, password, cipher_key) ==
    IF WriteRaises(t) THEN [file_t |-> t, file_b |-> b, warned |-> TRUE]
    ELSE IF WriteRaises(b)
    THEN [file_t |-> File(join(NL, <<url, username, password>>), TRUE),
          file_b |-> b, warned |-> TRUE]
    ELSE [file_t |-> File(join(NL, <<url, username, password>>), TRUE),
          file_b |-> File(cipher_key, TRUE), warned |-> FALSE]

----------------------------------------------------------------------------
(* Specifications of the parser: an input is drawn, then parse is applied *)

\* texts used in the inputs
T_BEGIN     == <<"B","E","G","I","N">>
T_END       == <<"E","N","D">>
T_CALENDAR  == <<"C","A","L","E","N","D","A","R">>
T_EVENT     == <<"E","V","E","N","T">>
T_calendar  == <<"c","a","l","e","n","d","a","r">>
T_event     == <<"e","v","e","n","t">>
T_summary   == <<"s","u","m","m","a","r","y">>
T_do_a_thing == <<"d","o"," ","a"," ","t","h","i","n","g">>
T_k         == <<"k">>
T_K         == <<"K">>
T_a         == <<"a">>
T_b         == <<"b">>
T_empty     == <<>>
T_RRULE     == <<"R","R","U","L","E">>
T_FREQ_DAILY == <<"F","R","E","Q","=","D","A","I","L","Y">>
T_FREQ_DAILY_COUNT == <<"F","R","E","Q","=","D","A","I","L","Y",";","C","O","U","N","T">>
T_DTSTART_TZID == <<"D","T","S","T","A","R","T",";","T","Z","I","D","=",
                    "E","u","r","o","p","e","/","A","m","s","t","e","r","d","a","m">>
T_Europe_Amsterdam == <<"E","u","r","o","p","e","/","A","m","s","t","e","r","d","a","m">>
T_20200612T170000 == <<"2","0","2","0","0","6","1","2","T","1","7","0","0","0","0">>

MaxScopeEntries == 5
MaxPropEntries == 3

\* entries of nested scopes: the entries of test_parse, a BEGIN in upper case
\* and a second property
ScopeEntries ==
    { <<K_begin, T_CALENDAR>>, <<K_begin, T_EVENT>>, <<T_BEGIN, T_EVENT>>,
      <<T_summary, T_do_a_thing>>, <<K_end, T_EVENT>>, <<K_end, T_CALENDAR>>,
      <<T_k, T_a>> }

\* property entries: a repeated key with empty and non-empty values, in both
\* cases of the key, a timezone-qualified key, rrule values, malformed entries,
\* and scope entries
PropEntries ==
    { <<T_k, T_a>>, <<T_k, T_empty>>, <<T_K, T_b>>,
      <<T_DTSTART_TZID, T_20200612T170000>>,
      <<T_RRULE, T_FREQ_DAILY>>, <<T_RRULE, T_FREQ_DAILY_COUNT>>,
      <<T_k>>, <<T_k, T_a, T_b>>,
      <<T_BEGIN, T_EVENT>>, <<T_END, T_EVENT>> }

SeqsUpTo(S, n) == UNION { [1..m -> S] : m \in 0..n }

DurationIdle ==
    /\ dur_parts = <<>>
    /\ dur_text = None
    /\ dur_out = [helper |-> NotRun, event |-> NotRun]

ParseIdle ==
    /\ entries = <<>>
    /\ parsed = NotRun

EventIdle ==
    /\ item = <<>>
    /\ event = NotRun
    /\ observed = NotRun

\* the positions of update: not running, or in _build_events before the pass
\* k of the loop (the sort once the items are exhausted)
Idle == [at |-> "idle"]
AtAppend(k) == [at |-> "append", k |-> k]

CalendarIdle ==
    /\ _raw_data = <<>>
    /\ _events = <<>>
    /\ pc = Idle
    /\ prev_raw_data = <<>>
    /\ updates = 0
    /\ seen = NotRun

CacheIdle ==
    /\ folder_exists = FALSE
    /\ file_t = Missing
    /\ file_b = Missing
    /\ cache_seen = [last |-> NotRun, prev |-> NotRun]

\* parse(entries) is called on the drawn input
Parse ==
    /\ parsed = NotRun
    /\ parsed' = parse(entries)
    /\ UNCHANGED <<entries, dur_vars, event_vars, cal_vars, cache_vars>>

InitScopes ==
    /\ entries \in SeqsUpTo(ScopeEntries, MaxScopeEntries)
    /\ parsed = NotRun
    /\ DurationIdle
    /\ EventIdle
    /\ CalendarIdle
    /\ CacheIdle

InitProps ==
    /\ entries \in SeqsUpTo(PropEntries, MaxPropEntries)
    /\ parsed = NotRun
    /\ DurationIdle
    /\ EventIdle
    /\ CalendarIdle
    /\ CacheIdle

NextParse == Parse

SpecScopes == InitScopes /\ [][NextParse]_vars
SpecProps == InitProps /\ [][NextParse]_vars

----------------------------------------------------------------------------
(* Scopes of an entry sequence, as BEGIN and END entries delimit them *)

IsBegin(e) == Len(e) = 2 /\ Lower(e[1]) = K_begin
IsEnd(e) == Len(e) = 2 /\ Lower(e[1]) = K_end

\* the number of scopes open after entry i
RECURSIVE DepthAfter(_, _)
DepthAfter(es, i) ==
    IF i = 0 THEN 0
    ELSE DepthAfter(es, i - 1)
         + (IF IsBegin(es[i]) THEN 1 ELSE IF IsEnd(es[i]) THEN -1 ELSE 0)

Balanced(es) ==
    /\ \A i \in 1..Len(es) : DepthAfter(es, i) >= 0
    /\ DepthAfter(es, Len(es)) = 0

\* the END that closes the scope the BEGIN at i opens
MatchingEnd(es, i) ==
    CHOOSE j \in (i+1)..Len(es) :
        /\ DepthAfter(es, j) = DepthAfter(es, i) - 1
        /\ \A m \in i..(j-1) : DepthAfter(es, m) >= DepthAfter(es, i)

TestParseInput ==
    << <<K_begin, T_CALENDAR>>, <<K_begin, T_EVENT>>, <<T_summary, T_do_a_thing>>,
       <<K_end, T_EVENT>>, <<K_end, T_CALENDAR>> >>

\* C3: for a balanced entry sequence parse returns; with a top-level BEGIN at
\* i and its matching END at j, the result is what the parent scope's loop
\* gives on the entries after j, started from the parent's entries before i
\* plus the parse of entries i+1..j-1 stored under the lower-cased BEGIN value
\* (so the entries after j go to the parent, none to the child, none dropped);
\* parse([]) is the empty dict; test_parse's input gives
\* result['calendar']['event']['summary'] = 'do a thing'.
Thm_C3_ScopesSharedCursor ==
    (parsed # NotRun /\ Balanced(entries)) =>
        /\ parsed.err = "none"
        /\ entries = <<>> => parsed.res = EmptyDict
        /\ entries = TestParseInput =>
               parsed.res[T_calendar].d[T_event].d[T_summary] = Str(T_do_a_thing)
        /\ \A i \in 1..Len(entries) :
               (IsBegin(entries[i]) /\ DepthAfter(entries, i) = 1) =>
                   LET j == MatchingEnd(entries, i)
                       pre == parse(SubSeq(entries, 1, i - 1)).res
                       body == parse(SubSeq(entries, i + 1, j - 1)).res
                       post == SubSeq(entries, j + 1, Len(entries))
                   IN  parsed.res =
                         ParseScope(post, 1,
                                    Put(pre, Lower(entries[i][2]), Dct(body))).res

\* a child scope opened in upper case, closed, and followed by an entry of the
\* parent (line 30 reads the key of an END only, not its value)
Wit_C3_EntryAfterChildEnd ==
    /\ entries = << <<K_begin, T_CALENDAR>>, <<T_BEGIN, T_EVENT>>, <<K_end, T_EVENT>>,
                    <<T_k, T_a>>, <<K_end, T_EVENT>> >>
    /\ parsed = [err |-> "none",
                 res |-> (T_calendar :> Dct(T_event :> Dct(EmptyDict)
                                            @@ T_k :> Str(T_a)))]

\* entries that all have the key k
SameKey(es) ==
    /\ Len(es) \in 1..3
    /\ \A i \in 1..Len(es) : Len(es[i]) = 2 /\ es[i][1] = T_k

\* C4: entries (k,v1), (k,v2), (k,v3) of one scope, the values any scalars
\* (empty strings included), give v1 after the first, [v1, v2] after the second
\* and the flat list [v1, v2, v3] after the third.
Cex_C4_RepeatedKeyPromotion ==
    (parsed # NotRun /\ SameKey(entries)) =>
        /\ parsed.err = "none"
        /\ parsed.res[T_k] =
              IF Len(entries) = 1 THEN Str(entries[1][2])
              ELSE Lst([i \in 1..Len(entries) |-> Str(entries[i][2])])

\* C5: the entry DTSTART;TZID=Europe/Amsterdam is stored under dtstart as
\* {timezone, time}, the timezone in its original spelling "Europe/Amsterdam",
\* the time the unchanged value.
Cex_C5_TimezoneCasePreserved ==
    (parsed # NotRun /\ entries = << <<T_DTSTART_TZID, T_20200612T170000>> >>) =>
        parsed = [err |-> "none",
                  res |-> (K_dtstart :> Dct(K_timezone :> Str(T_Europe_Amsterdam)
                                            @@ K_time :> Str(T_20200612T170000)))]

\* C9: parse never fails, on any finite sequence of entries; entries that are
\* not of two elements contribute nothing.
Cex_C9_ParseNeverFails ==
    parsed # NotRun =>
        /\ parsed.err = "none"
        /\ parsed = parse(SelectSeq(entries, LAMBDA e : Len(e) = 2))

----------------------------------------------------------------------------
(* Specification of the duration parsers: a text of the grammar
   P[nY][nM][nW][nD][T[nH][nM][nS]] (or None) is drawn, then each copy is
   applied to it *)

MaxDurValue == 1

Absent == -1

\* the numbers a component is written with: 0..MaxDurValue and a two-digit one
DurValues == (0..MaxDurValue) \cup {12}

DurParts ==
    [Y : DurValues \cup {Absent}, Mo : DurValues \cup {Absent},
     W : DurValues \cup {Absent}, D : DurValues \cup {Absent},
     H : DurValues \cup {Absent}, Mi : DurValues \cup {Absent},
     S : DurValues \cup {Absent}]

NoParts == [none |-> TRUE]

\* str(n), n >= 0
RECURSIVE StrOfInt(_)
StrOfInt(n) ==
    IF n < 10 THEN <<Digits[n + 1]>>
    ELSE StrOfInt(n \div 10) \o <<Digits[(n % 10) + 1]>>

Component(n, q) == IF n = Absent THEN <<>> ELSE StrOfInt(n) \o <<q>>

\* the text of the grammar with the components p
FormatDuration(p) ==
    <<"P">> \o Component(p.Y, "Y") \o Component(p.Mo, "M")
            \o Component(p.W, "W") \o Component(p.D, "D")
    \o (IF p.H = Absent /\ p.Mi = Absent /\ p.S = Absent THEN <<>>
        ELSE <<"T">> \o Component(p.H, "H") \o Component(p.Mi, "M")
                     \o Component(p.S, "S"))

InitDuration ==
    /\ dur_parts \in DurParts \cup {NoParts}
    /\ dur_text = IF dur_parts = NoParts THEN None
                       ELSE Some(FormatDuration(dur_parts))
    /\ dur_out = [helper |-> NotRun, event |-> NotRun]
    /\ ParseIdle
    /\ EventIdle
    /\ CalendarIdle
    /\ CacheIdle

\* helpers.parse_iso8601_duration(dur_text)
ParseDurationHelper ==
    /\ dur_out.helper = NotRun
    /\ dur_out' = [dur_out EXCEPT !.helper = parse_iso8601_duration(dur_text)]
    /\ UNCHANGED <<dur_parts, dur_text, parse_vars, event_vars, cal_vars, cache_vars>>

\* EteSyncEvent.duration, lines 306-308: _parse_duration is called on a text
\* that is not None
ParseDurationEvent ==
    /\ dur_out.event = NotRun
    /\ dur_text # None
    /\ dur_out' = [dur_out EXCEPT !.event = _parse_duration(dur_text)]
    /\ UNCHANGED <<dur_parts, dur_text, parse_vars, event_vars, cal_vars, cache_vars>>

NextDuration == ParseDurationHelper \/ ParseDurationEvent

SpecDuration == InitDuration /\ [][NextDuration]_vars

Val(n) == IF n = Absent THEN 0 ELSE n

\* what the claim says the text with components p amounts to, in seconds
ClaimedSeconds(p) ==
    (365 * Val(p.Y) + 7 * Val(p.W) + Val(p.D)) * SecondsPerDay
    + 3600 * Val(p.H) + 60 * Val(p.Mi) + Val(p.S)

TotalSeconds(td) == td.days * SecondsPerDay + td.seconds

IsClaimedDuration(out, p) ==
    /\ out.err = "none"
    /\ TotalSeconds(out.val) = ClaimedSeconds(p)
    /\ out.val.seconds \in 0..(SecondsPerDay - 1)

\* C6: on a text of the grammar each copy of the duration parser returns
\* (365*Y + 7*W + D) days plus (3600*H + 60*M + S) seconds, M before T (months)
\* left out and M after T counted as minutes; parse_iso8601_duration(None) is
\* None; the two copies return the same value on every text.
Thm_C6_DurationValue ==
    /\ (dur_out.helper # NotRun /\ dur_text = None) =>
           dur_out.helper = [err |-> "none", val |-> None]
    /\ (dur_out.helper # NotRun /\ dur_text # None) =>
           IsClaimedDuration(dur_out.helper, dur_parts)
    /\ dur_out.event # NotRun =>
           IsClaimedDuration(dur_out.event, dur_parts)
    /\ (dur_out.helper # NotRun /\ dur_out.event # NotRun) =>
           dur_out.helper = dur_out.event

\* P1Y12M1DT12M: months before T, minutes after T, both copies applied
Wit_C6_MonthsAndMinutes ==
    /\ dur_parts = [Y |-> 1, Mo |-> 12, W |-> Absent, D |-> 1,
                         H |-> Absent, Mi |-> 12, S |-> Absent]
    /\ dur_text = Some(<<"P","1","Y","1","2","M","1","D","T","1","2","M">>)
    /\ dur_out.helper = [err |-> "none", val |-> [days |-> 366, seconds |-> 720]]
    /\ dur_out.event = dur_out.helper

----------------------------------------------------------------------------
(* Specification of one event: a raw item is drawn, EteSyncEvent is made of
   it, and its properties and methods are read at instants and ranges around
   the events' times *)

\* spec 8: the Standup item, its date-times without a timezone parameter
Item_Standup ==
    << <<"B","E","G","I","N",":","V","C","A","L","E","N","D","A","R">>,
       <<"B","E","G","I","N",":","V","E","V","E","N","T">>,
       <<"S","U","M","M","A","R","Y",":","S","t","a","n","d","u","p">>,
       <<"D","T","S","T","A","R","T",":","2","0","2","0","0","6","0","1","T","0","9","0","0","0","0">>,
       <<"D","T","E","N","D",":","2","0","2","0","0","6","0","1","T","0","9","3","0","0","0">>,
       <<"E","N","D",":","V","E","V","E","N","T">>,
       <<"E","N","D",":","V","C","A","L","E","N","D","A","R">> >>

\* an event over [2020-01-01, 2020-01-02)
Item_Day ==
    << <<"B","E","G","I","N",":","V","C","A","L","E","N","D","A","R">>,
       <<"B","E","G","I","N",":","V","E","V","E","N","T">>,
       <<"S","U","M","M","A","R","Y",":","D","a","y">>,
       <<"D","T","S","T","A","R","T",";","T","Z","I","D","=","E","u","r","o","p","e","/","A","m","s","t","e","r","d","a","m",":","2","0","2","0","0","1","0","1","T","0","0","0","0","0","0">>,
       <<"D","T","E","N","D",";","T","Z","I","D","=","E","u","r","o","p","e","/","A","m","s","t","e","r","d","a","m",":","2","0","2","0","0","1","0","2","T","0","0","0","0","0","0">>,
       <<"E","N","D",":","V","E","V","E","N","T">>,
       <<"E","N","D",":","V","C","A","L","E","N","D","A","R">> >>

\* an event over [2020-01-01 12:00, 13:00)
Item_Lunch ==
    << <<"B","E","G","I","N",":","V","C","A","L","E","N","D","A","R">>,
       <<"B","E","G","I","N",":","V","E","V","E","N","T">>,
       <<"S","U","M","M","A","R","Y",":","L","u","n","c","h">>,
       <<"D","T","S","T","A","R","T",";","T","Z","I","D","=","E","u","r","o","p","e","/","A","m","s","t","e","r","d","a","m",":","2","0","2","0","0","1","0","1","T","1","2","0","0","0","0">>,
       <<"D","T","E","N","D",";","T","Z","I","D","=","E","u","r","o","p","e","/","A","m","s","t","e","r","d","a","m",":","2","0","2","0","0","1","0","1","T","1","3","0","0","0","0">>,
       <<"E","N","D",":","V","E","V","E","N","T">>,
       <<"E","N","D",":","V","C","A","L","E","N","D","A","R">> >>

\* an event over [2020-01-02 10:00, 11:30)
Item_Review ==
    << <<"B","E","G","I","N",":","V","C","A","L","E","N","D","A","R">>,
       <<"B","E","G","I","N",":","V","E","V","E","N","T">>,
       <<"S","U","M","M","A","R","Y",":","R","e","v","i","e","w">>,
       <<"D","T","S","T","A","R","T",";","T","Z","I","D","=","E","u","r","o","p","e","/","A","m","s","t","e","r","d","a","m",":","2","0","2","0","0","1","0","2","T","1","0","0","0","0","0">>,
       <<"D","T","E","N","D",";","T","Z","I","D","=","E","u","r","o","p","e","/","A","m","s","t","e","r","d","a","m",":","2","0","2","0","0","1","0","2","T","1","1","3","0","0","0">>,
       <<"E","N","D",":","V","E","V","E","N","T">>,
       <<"E","N","D",":","V","C","A","L","E","N","D","A","R">> >>

\* a VEVENT with no dtstart
Item_NoStart ==
    << <<"B","E","G","I","N",":","V","C","A","L","E","N","D","A","R">>,
       <<"B","E","G","I","N",":","V","E","V","E","N","T">>,
       <<"S","U","M","M","A","R","Y",":","N","o","S","t","a","r","t">>,
       <<"D","T","E","N","D",";","T","Z","I","D","=","E","u","r","o","p","e","/","A","m","s","t","e","r","d","a","m",":","2","0","2","0","0","1","0","2","T","0","0","0","0","0","0">>,
       <<"E","N","D",":","V","E","V","E","N","T">>,
       <<"E","N","D",":","V","C","A","L","E","N","D","A","R">> >>

\* a VEVENT with no dtend
Item_NoEnd ==
    << <<"B","E","G","I","N",":","V","C","A","L","E","N","D","A","R">>,
       <<"B","E","G","I","N",":","V","E","V","E","N","T">>,
       <<"S","U","M","M","A","R","Y",":","N","o","E","n","d">>,
       <<"D","T","S","T","A","R","T",";","T","Z","I","D","=","E","u","r","o","p","e","/","A","m","s","t","e","r","d","a","m",":","2","0","2","0","0","1","0","1","T","1","0","0","0","0","0">>,
       <<"E","N","D",":","V","E","V","E","N","T">>,
       <<"E","N","D",":","V","C","A","L","E","N","D","A","R">> >>

\* an all-day start (a date) and no dtend
Item_AllDay ==
    << <<"B","E","G","I","N",":","V","C","A","L","E","N","D","A","R">>,
       <<"B","E","G","I","N",":","V","E","V","E","N","T">>,
       <<"S","U","M","M","A","R","Y",":","A","l","l","D","a","y">>,
       <<"D","T","S","T","A","R","T",";","V","A","L","U","E","=","D","A","T","E",":","2","0","2","0","0","1","0","1">>,
       <<"E","N","D",":","V","E","V","E","N","T">>,
       <<"E","N","D",":","V","C","A","L","E","N","D","A","R">> >>

\* an all-day start and end
Item_AllDayEnd ==
    << <<"B","E","G","I","N",":","V","C","A","L","E","N","D","A","R">>,
       <<"B","E","G","I","N",":","V","E","V","E","N","T">>,
       <<"S","U","M","M","A","R","Y",":","A","l","l","D","a","y","E","n","d">>,
       <<"D","T","S","T","A","R","T",";","V","A","L","U","E","=","D","A","T","E",":","2","0","2","0","0","1","0","1">>,
       <<"D","T","E","N","D",";","V","A","L","U","E","=","D","A","T","E",":","2","0","2","0","0","1","0","1">>,
       <<"E","N","D",":","V","E","V","E","N","T">>,
       <<"E","N","D",":","V","C","A","L","E","N","D","A","R">> >>

\* dtstart and dtend with empty values
Item_EmptyTimes ==
    << <<"B","E","G","I","N",":","V","C","A","L","E","N","D","A","R">>,
       <<"B","E","G","I","N",":","V","E","V","E","N","T">>,
       <<"D","T","S","T","A","R","T",";","T","Z","I","D","=","E","u","r","o","p","e","/","A","m","s","t","e","r","d","a","m",":">>,
       <<"D","T","E","N","D",";","T","Z","I","D","=","E","u","r","o","p","e","/","A","m","s","t","e","r","d","a","m",":">>,
       <<"E","N","D",":","V","E","V","E","N","T">>,
       <<"E","N","D",":","V","C","A","L","E","N","D","A","R">> >>

\* a daily event of one hour
Item_Daily ==
    << <<"B","E","G","I","N",":","V","C","A","L","E","N","D","A","R">>,
       <<"B","E","G","I","N",":","V","E","V","E","N","T">>,
       <<"S","U","M","M","A","R","Y",":","D","a","i","l","y">>,
       <<"D","T","S","T","A","R","T",";","T","Z","I","D","=","E","u","r","o","p","e","/","A","m","s","t","e","r","d","a","m",":","2","0","2","0","0","1","0","1","T","1","0","0","0","0","0">>,
       <<"D","T","E","N","D",";","T","Z","I","D","=","E","u","r","o","p","e","/","A","m","s","t","e","r","d","a","m",":","2","0","2","0","0","1","0","1","T","1","1","0","0","0","0">>,
       <<"D","U","R","A","T","I","O","N",":","P","T","1","H">>,
       <<"R","R","U","L","E",":","F","R","E","Q","=","D","A","I","L","Y">>,
       <<"E","N","D",":","V","E","V","E","N","T">>,
       <<"E","N","D",":","V","C","A","L","E","N","D","A","R">> >>

\* a daily event with dtend and no duration
Item_DailyNoDuration ==
    << <<"B","E","G","I","N",":","V","C","A","L","E","N","D","A","R">>,
       <<"B","E","G","I","N",":","V","E","V","E","N","T">>,
       <<"S","U","M","M","A","R","Y",":","D","a","i","l","y","N","o","D","u","r","a","t","i","o","n">>,
       <<"D","T","S","T","A","R","T",";","T","Z","I","D","=","E","u","r","o","p","e","/","A","m","s","t","e","r","d","a","m",":","2","0","2","0","0","1","0","1","T","1","0","0","0","0","0">>,
       <<"D","T","E","N","D",";","T","Z","I","D","=","E","u","r","o","p","e","/","A","m","s","t","e","r","d","a","m",":","2","0","2","0","0","1","0","1","T","1","1","0","0","0","0">>,
       <<"R","R","U","L","E",":","F","R","E","Q","=","D","A","I","L","Y">>,
       <<"E","N","D",":","V","E","V","E","N","T">>,
       <<"E","N","D",":","V","C","A","L","E","N","D","A","R">> >>

\* a weekly event of one hour
Item_Weekly ==
    << <<"B","E","G","I","N",":","V","C","A","L","E","N","D","A","R">>,
       <<"B","E","G","I","N",":","V","E","V","E","N","T">>,
       <<"S","U","M","M","A","R","Y",":","W","e","e","k","l","y">>,
       <<"D","T","S","T","A","R","T",";","T","Z","I","D","=","E","u","r","o","p","e","/","A","m","s","t","e","r","d","a","m",":","2","0","2","0","0","1","0","1","T","1","0","0","0","0","0">>,
       <<"D","T","E","N","D",";","T","Z","I","D","=","E","u","r","o","p","e","/","A","m","s","t","e","r","d","a","m",":","2","0","2","0","0","1","0","1","T","1","1","0","0","0","0">>,
       <<"D","U","R","A","T","I","O","N",":","P","T","1","H">>,
       <<"R","R","U","L","E",":","F","R","E","Q","=","W","E","E","K","L","Y">>,
       <<"E","N","D",":","V","E","V","E","N","T">>,
       <<"E","N","D",":","V","C","A","L","E","N","D","A","R">> >>

\* a monthly event of one hour, on the 31st
Item_Monthly ==
    << <<"B","E","G","I","N",":","V","C","A","L","E","N","D","A","R">>,
       <<"B","E","G","I","N",":","V","E","V","E","N","T">>,
       <<"S","U","M","M","A","R","Y",":","M","o","n","t","h","l","y">>,
       <<"D","T","S","T","A","R","T",";","T","Z","I","D","=","E","u","r","o","p","e","/","A","m","s","t","e","r","d","a","m",":","2","0","1","9","1","2","3","1","T","1","0","0","0","0","0">>,
       <<"D","T","E","N","D",";","T","Z","I","D","=","E","u","r","o","p","e","/","A","m","s","t","e","r","d","a","m",":","2","0","1","9","1","2","3","1","T","1","1","0","0","0","0">>,
       <<"D","U","R","A","T","I","O","N",":","P","T","1","H">>,
       <<"R","R","U","L","E",":","F","R","E","Q","=","M","O","N","T","H","L","Y">>,
       <<"E","N","D",":","V","E","V","E","N","T">>,
       <<"E","N","D",":","V","C","A","L","E","N","D","A","R">> >>

\* a yearly event of one hour
Item_Yearly ==
    << <<"B","E","G","I","N",":","V","C","A","L","E","N","D","A","R">>,
       <<"B","E","G","I","N",":","V","E","V","E","N","T">>,
       <<"S","U","M","M","A","R","Y",":","Y","e","a","r","l","y">>,
       <<"D","T","S","T","A","R","T",";","T","Z","I","D","=","E","u","r","o","p","e","/","A","m","s","t","e","r","d","a","m",":","2","0","1","9","0","1","0","1","T","1","0","0","0","0","0">>,
       <<"D","T","E","N","D",";","T","Z","I","D","=","E","u","r","o","p","e","/","A","m","s","t","e","r","d","a","m",":","2","0","1","9","0","1","0","1","T","1","1","0","0","0","0">>,
       <<"D","U","R","A","T","I","O","N",":","P","T","1","H">>,
       <<"R","R","U","L","E",":","F","R","E","Q","=","Y","E","A","R","L","Y">>,
       <<"E","N","D",":","V","E","V","E","N","T">>,
       <<"E","N","D",":","V","C","A","L","E","N","D","A","R">> >>

\* an event of a frequency that is not supported
Item_Hourly ==
    << <<"B","E","G","I","N",":","V","C","A","L","E","N","D","A","R">>,
       <<"B","E","G","I","N",":","V","E","V","E","N","T">>,
       <<"S","U","M","M","A","R","Y",":","H","o","u","r","l","y">>,
       <<"D","T","S","T","A","R","T",";","T","Z","I","D","=","E","u","r","o","p","e","/","A","m","s","t","e","r","d","a","m",":","2","0","2","0","0","1","0","1","T","1","0","0","0","0","0">>,
       <<"D","T","E","N","D",";","T","Z","I","D","=","E","u","r","o","p","e","/","A","m","s","t","e","r","d","a","m",":","2","0","2","0","0","1","0","1","T","1","1","0","0","0","0">>,
       <<"D","U","R","A","T","I","O","N",":","P","T","1","H">>,
       <<"R","R","U","L","E",":","F","R","E","Q","=","H","O","U","R","L","Y">>,
       <<"E","N","D",":","V","E","V","E","N","T">>,
       <<"E","N","D",":","V","C","A","L","E","N","D","A","R">> >>

RawItems ==
    { Item_Standup, Item_Day, Item_Lunch, Item_Review,
      Item_NoStart, Item_NoEnd, Item_AllDay, Item_AllDayEnd,
      Item_EmptyTimes, Item_Daily, Item_DailyNoDuration, Item_Weekly,
      Item_Monthly, Item_Yearly, Item_Hourly }

\* an instant: the date and the time of day
At(y, m, d, hh, mm) == [days |-> ToOrdinal(y, m, d), secs |-> hh * 3600 + mm * 60]

Instants ==
    { At(2019, 12, 31, 23, 0), At(2020, 1, 1, 0, 0), At(2020, 1, 1, 10, 30),
      At(2020, 1, 1, 12, 0), At(2020, 1, 1, 18, 0), At(2020, 1, 2, 0, 0),
      At(2020, 1, 2, 10, 30), At(2020, 1, 3, 0, 0), At(2020, 1, 5, 9, 0) }

\* the ranges [start_date, end_date) of the queries, start_date < end_date
Ranges == { r \in Instants \X Instants : DtLess(r[1], r[2]) }

InitEvent ==
    /\ item \in RawItems
    /\ event = NotRun
    /\ observed = NotRun
    /\ ParseIdle
    /\ DurationIdle
    /\ CalendarIdle
    /\ CacheIdle

\* EteSyncEvent(event)
Construct ==
    /\ event = NotRun
    /\ event' = EteSyncEvent(item)
    /\ UNCHANGED <<item, observed, parse_vars, dur_vars, cal_vars, cache_vars>>

Constructed == event.err = "none"

ReadSummary ==
    /\ Constructed
    /\ observed' = [op |-> "summary", out |-> summary(event.val)]
    /\ UNCHANGED <<item, event, parse_vars, dur_vars, cal_vars, cache_vars>>

ReadStart ==
    /\ Constructed
    /\ observed' = [op |-> "start", out |-> start(event.val)]
    /\ UNCHANGED <<item, event, parse_vars, dur_vars, cal_vars, cache_vars>>

ReadEnd ==
    /\ Constructed
    /\ observed' = [op |-> "end", out |-> end(event.val)]
    /\ UNCHANGED <<item, event, parse_vars, dur_vars, cal_vars, cache_vars>>

ReadIsAllDay ==
    /\ Constructed
    /\ observed' = [op |-> "is_all_day", out |-> is_all_day(event.val)]
    /\ UNCHANGED <<item, event, parse_vars, dur_vars, cal_vars, cache_vars>>

CallDelta ==
    /\ Constructed
    /\ \E dt \in Instants :
          observed' = [op |-> "delta", dt |-> dt, out |-> delta(event.val, dt)]
    /\ UNCHANGED <<item, event, parse_vars, dur_vars, cal_vars, cache_vars>>

CallIsInRange ==
    /\ Constructed
    /\ \E r \in Ranges :
          observed' = [op |-> "is_in_range", start_date |-> r[1], end_date |-> r[2],
                       out |-> is_in_range(event.val, r[1], r[2])]
    /\ UNCHANGED <<item, event, parse_vars, dur_vars, cal_vars, cache_vars>>

NextEvent ==
    \/ Construct
    \/ ReadSummary
    \/ ReadStart
    \/ ReadEnd
    \/ ReadIsAllDay
    \/ CallDelta
    \/ CallIsInRange

SpecEvent == InitEvent /\ [][NextEvent]_vars

\* a property or a call has been observed on the constructed event
Observed(op) == Constructed /\ "op" \in DOMAIN observed /\ observed.op = op

\* [st, en) and [start_date, end_date) intersect
Overlaps(st, en, start_date, end_date) == DtLess(st, end_date) /\ DtLess(start_date, en)

\* some occurrence st, st + interval, .. of the duration dur intersects the range
RECURSIVE SomeOccurrenceOverlaps(_, _, _, _, _)
SomeOccurrenceOverlaps(st, dur, interval, start_date, end_date) ==
    IF ~DtLess(st, end_date) THEN FALSE
    ELSE \/ Overlaps(st, DtAdd(st, dur), start_date, end_date)
         \/ SomeOccurrenceOverlaps(AddInterval(st, interval), dur, interval,
                                   start_date, end_date)

\* the event has occurrences: its start and end can be read, and when it
\* recurs its frequency is a supported one and it has a duration
HasOccurrences(self) ==
    /\ start(self).err = "none"
    /\ end(self).err = "none"
    /\ is_recurring(self) =>
          /\ Frequency(self).err = "none"
          /\ DeltaInterval(Frequency(self).val) # None
          /\ duration(self).err = "none"
          /\ duration(self).val # None

\* some occurrence of the event intersects [start_date, end_date)
Intersects(self, start_date, end_date) ==
    IF is_recurring(self)
    THEN SomeOccurrenceOverlaps(start(self).val, duration(self).val.v,
                                DeltaInterval(Frequency(self).val).v,
                                start_date, end_date)
    ELSE Overlaps(start(self).val, end(self).val, start_date, end_date)

\* C1: for every event and every range [start_date, end_date) with
\* start_date < end_date, is_in_range(start_date, end_date) is true exactly
\* when some occurrence of the event intersects the range: it is true unless
\* the occurrence ends at or before start_date or starts at or after end_date.
Cex_C1_InRangeIffIntersects ==
    (Observed("is_in_range") /\ HasOccurrences(event.val)) =>
        observed.out = Ok(Intersects(event.val, observed.start_date, observed.end_date))

\* C7: the item of the lines BEGIN:VCALENDAR, BEGIN:VEVENT, SUMMARY:Standup,
\* DTSTART:20200601T090000, DTEND:20200601T093000, END:VEVENT, END:VCALENDAR
\* gives an event whose summary is "Standup", whose start is 2020-06-01 09:00
\* and whose end is 2020-06-01 09:30, and which is not all day; reading start,
\* end and is_all_day does not fail.
Cex_C7_StandupReads ==
    (item = Item_Standup /\ event # NotRun) =>
        /\ Constructed
        /\ Observed("summary") => observed.out = Ok(Str(<<"S","t","a","n","d","u","p">>))
        /\ Observed("start") => observed.out = Ok(At(2020, 6, 1, 9, 0))
        /\ Observed("end") => observed.out = Ok(At(2020, 6, 1, 9, 30))
        /\ Observed("is_all_day") => observed.out = Ok(FALSE)

\* dt falls inside [st, st + dur) of one of the occurrences st, st + interval, ..
RECURSIVE InSomeOccurrence(_, _, _, _)
InSomeOccurrence(st, dur, interval, dt) ==
    IF DtLess(dt, st) THEN FALSE
    ELSE \/ DtLess(dt, DtAdd(st, dur))
         \/ InSomeOccurrence(AddInterval(st, interval), dur, interval, dt)

\* dt falls inside an occurrence of the event
InOccurrence(self, dt) ==
    IF is_recurring(self)
    THEN InSomeOccurrence(start(self).val, duration(self).val.v,
                          DeltaInterval(Frequency(self).val).v, dt)
    ELSE ~DtLess(dt, start(self).val) /\ DtLess(dt, end(self).val)

\* the delta of dt and the occurrence [st, en): start - dt before it, zero
\* inside it, end - dt after it
DeltaOfOccurrence(st, en, dt) ==
    IF DtLess(dt, st) THEN DtSub(st, dt)
    ELSE IF DtLess(dt, en) THEN timedelta(0, 0)
    ELSE DtSub(en, dt)

\* C14: delta(dt) is zero exactly when dt falls inside [start, end) of one of
\* the occurrences of the event, the first occurrence of a recurring event
\* included and a dt between two occurrences excluded; for an event that does
\* not recur it is start - dt, positive, before the start and end - dt,
\* negative, once the event has ended.
Cex_C14_DeltaOfOccurrences ==
    (Observed("delta") /\ HasOccurrences(event.val)
     /\ DtLess(start(event.val).val, end(event.val).val)) =>
        /\ observed.out.err = "none"
        /\ (observed.out.val = timedelta(0, 0)) <=> InOccurrence(event.val, observed.dt)
        /\ ~is_recurring(event.val) =>
               observed.out.val = DeltaOfOccurrence(start(event.val).val,
                                                    end(event.val).val, observed.dt)

\* the VEVENT of the event has no property of the name
Lacks(self, name) == HasVEvent(self) /\ _get_time(self, name) = None

\* the end of an event with no dtend: the end of the start date for a start
\* at the first instant of its date, else the earliest instant
AbsentEnd(st) ==
    IF st.err = "none" /\ st.val.secs = time_min
    THEN Ok([days |-> st.val.days, secs |-> time_max])
    ELSE Ok(datetime_min)

\* C10: start of an event with no dtstart is datetime.max; end of an event
\* with no dtend is datetime.min, or the end of the start date for an all-day
\* start; neither property raises.
Cex_C10_AbsentTimesGiveSentinels ==
    /\ (Observed("start") /\ Lacks(event.val, K_dtstart)) =>
           observed.out = Ok(datetime_max)
    /\ (Observed("end") /\ Lacks(event.val, K_dtend)) =>
           observed.out = AbsentEnd(start(event.val))

----------------------------------------------------------------------------
(* Specification of a calendar: constructed from a synced collection,
   updated from the collection the next sync brings, and read meanwhile by
   next_event and get_events_in_range (Home Assistant runs update in a worker
   thread and reads from its event loop) *)

MaxItems == 2
MaxUpdates == 1

CalendarItems == {Item_Day, Item_Lunch, Item_Review, Item_Hourly}

Collections == SeqsUpTo(CalendarItems, MaxItems)

Nows == { At(2020, 1, 1, 10, 30), At(2020, 1, 1, 18, 0), At(2020, 1, 3, 0, 0) }

QueryRanges ==
    { <<At(2020, 1, 1, 12, 0), At(2020, 1, 1, 18, 0)>>,
      <<At(2020, 1, 2, 0, 0), At(2020, 1, 3, 0, 0)>> }

\* the events of the items of a collection, in its order
EventsOf(collection) == [i \in 1..Len(collection) |-> EteSyncEvent(collection[i]).val]

\* __init__: _events = [] and _build_events, on the collection of raw_data
InitCalendar ==
    /\ _raw_data \in Collections
    /\ _events = SortByStart(EventsOf(_raw_data)).val
    /\ pc = Idle
    /\ prev_raw_data = _raw_data
    /\ updates = 0
    /\ seen = NotRun
    /\ ParseIdle
    /\ DurationIdle
    /\ EventIdle
    /\ CacheIdle

\* update, lines 228-230 and 185: the sync, the collection it brought, and
\* its items listed
UpdateSync ==
    /\ pc = Idle
    /\ updates < MaxUpdates
    /\ \E c \in Collections : _raw_data' = c
    /\ prev_raw_data' = _raw_data
    /\ updates' = updates + 1
    /\ pc' = AtAppend(1)
    /\ UNCHANGED <<_events, seen, parse_vars, dur_vars, event_vars, cache_vars>>

\* _build_events, lines 186-187: one pass of the loop
BuildAppend ==
    /\ pc.at = "append"
    /\ pc.k <= Len(_raw_data)
    /\ LET e == EteSyncEvent(_raw_data[pc.k])
       IN  IF e.err # "none"
           THEN _events' = _events /\ pc' = Idle
           ELSE _events' = Append(_events, e.val) /\ pc' = AtAppend(pc.k + 1)
    /\ UNCHANGED <<_raw_data, prev_raw_data, updates, seen, parse_vars, dur_vars, event_vars, cache_vars>>

\* _build_events, line 188: the sort
BuildSort ==
    /\ pc.at = "append"
    /\ pc.k > Len(_raw_data)
    /\ LET sorted == SortByStart(_events)
       IN  _events' = IF sorted.err # "none" THEN _events ELSE sorted.val
    /\ pc' = Idle
    /\ UNCHANGED <<_raw_data, prev_raw_data, updates, seen, parse_vars, dur_vars, event_vars, cache_vars>>

\* a reader: next_event at the instant now
ReadNextEvent ==
    /\ \E now \in Nows :
          seen' = [op |-> "next_event", now |-> now, events |-> _events,
                   out |-> next_event(_events, now)]
    /\ UNCHANGED <<_raw_data, _events, pc, prev_raw_data, updates,
                   parse_vars, dur_vars, event_vars, cache_vars>>

\* a reader: async_get_events
ReadEventsInRange ==
    /\ \E r \in QueryRanges :
          seen' = [op |-> "get_events_in_range", start_date |-> r[1], end_date |-> r[2],
                   events |-> _events,
                   out |-> get_events_in_range(_events, r[1], r[2])]
    /\ UNCHANGED <<_raw_data, _events, pc, prev_raw_data, updates,
                   parse_vars, dur_vars, event_vars, cache_vars>>

NextCalendar ==
    \/ UpdateSync
    \/ BuildAppend
    \/ BuildSort
    \/ ReadNextEvent
    \/ ReadEventsInRange

SpecCalendar == InitCalendar /\ [][NextCalendar]_vars

\* the event is in progress at now: now is in [start, end)
InProgress(e, now) == ~DtLess(now, start(e).val) /\ DtLess(now, end(e).val)

\* the event has not started at now
NotStarted(e, now) == DtLess(now, start(e).val)

\* the first event of the list, of those not started at now, with the
\* smallest start - now
FirstNearest(list, now) ==
    list[CHOOSE i \in 1..Len(list) :
            /\ NotStarted(list[i], now)
            /\ \A j \in 1..Len(list) : NotStarted(list[j], now) =>
                  \/ DtLess(start(list[i]).val, start(list[j]).val)
                  \/ (start(list[i]).val = start(list[j]).val /\ i <= j)]

\* C2: next_event returns an event in progress at now whenever the list holds
\* one; otherwise the event not yet started with the smallest delta, the first
\* in list order on a tie; never an event that has ended; None when no event is
\* in progress or to come.
Cex_C2_NextEventCurrentOrUpcoming ==
    ("op" \in DOMAIN seen /\ seen.op = "next_event") =>
        IF \E i \in 1..Len(seen.events) : InProgress(seen.events[i], seen.now)
        THEN \E i \in 1..Len(seen.events) :
                /\ InProgress(seen.events[i], seen.now)
                /\ seen.out = Ok(Some(seen.events[i]))
        ELSE IF \E i \in 1..Len(seen.events) : NotStarted(seen.events[i], seen.now)
        THEN seen.out = Ok(Some(FirstNearest(seen.events, seen.now)))
        ELSE seen.out = Ok(None)

\* the event recurs with a frequency that is not daily, weekly, monthly or
\* yearly
Unsupported(e) ==
    /\ HasVEvent(e)
    /\ is_recurring(e)
    /\ Frequency(e).err = "none"
    /\ DeltaInterval(Frequency(e).val) = None

\* C11: an event that recurs with a frequency that is not supported has no
\* occurrences: get_events_in_range never lists it, next_event never returns
\* it, whatever other events the calendar holds, and neither fails.
Cex_C11_UnsupportedFrequencyNeverReturned ==
    "op" \in DOMAIN seen =>
        /\ seen.out.err = "none"
        /\ seen.op = "next_event" =>
              (seen.out.val = None \/ ~Unsupported(seen.out.val.v))
        /\ seen.op = "get_events_in_range" =>
              \A i \in 1..Len(seen.out.val) : ~Unsupported(seen.out.val[i])

\* the complete list of a collection: one event per item, sorted by start
CompleteList(collection) == SortByStart(EventsOf(collection)).val

\* C8: at every point a reader can observe it, the event list is the complete
\* list of the collection synced before or the complete list of the collection
\* synced now: one event per item, never a part of a rebuild and never the old
\* and the new items together.
Cex_C8_ListIsOldOrNew ==
    _events \in { CompleteList(prev_raw_data), CompleteList(_raw_data) }

----------------------------------------------------------------------------
(* Specification of the cache: write_to_cache and read_from_cache on one
   folder, which does not exist at first, and what happens to its files from
   outside meanwhile *)

\* the values of the tests, and a password that ends in a space
T_https_test_test == <<"h","t","t","p","s",":","/","/","t","e","s","t",".","t","e","s","t">>
T_https_test_nl   == <<"h","t","t","p","s",":","/","/","t","e","s","t",".","n","l">>
T_testuser        == <<"t","e","s","t","u","s","e","r">>
T_mypass          == <<"m","y","p","a","s","s">>
T_drowssap        == <<"d","r","o","w","s","s","a","p">>
T_mypass_space    == <<"m","y","p","a","s","s"," ">>
T_url_user        == <<"u","r","l","\n","u","s","e","r","\n">>

CacheUrls == {T_https_test_test, T_https_test_nl}
CacheUsernames == {T_testuser}
CachePasswords == {T_mypass, T_drowssap, T_mypass_space}
CacheKeys == {<<15, 123, 51>>, <<1, 2, 3, 4, 5>>}

InitCache ==
    /\ CacheIdle
    /\ ParseIdle
    /\ DurationIdle
    /\ EventIdle
    /\ CalendarIdle

\* the call c is made last, after the last call so far
Called(c) == cache_seen' = [last |-> c, prev |-> cache_seen.last]

\* write_to_cache(folder, url, username, password, cipher_key)
WriteToCache ==
    /\ \E url \in CacheUrls, username \in CacheUsernames,
          password \in CachePasswords, cipher_key \in CacheKeys :
          LET w == write_to_cache(file_t, file_b, url, username, password, cipher_key)
          IN  /\ file_t' = w.file_t
              /\ file_b' = w.file_b
              /\ Called([op |-> "write", url |-> url, username |-> username,
                         password |-> password, cipher_key |-> cipher_key,
                         warned |-> w.warned])
    /\ folder_exists' = TRUE
    /\ UNCHANGED <<parse_vars, dur_vars, event_vars, cal_vars>>

\* read_from_cache(folder)
ReadFromCache ==
    /\ LET r == read_from_cache(file_t, file_b)
       IN  /\ file_t' = r.file_t
           /\ Called([op |-> "read", file_t |-> file_t, file_b |-> file_b,
                      out |-> r.out])
    /\ UNCHANGED <<folder_exists, file_b, parse_vars, dur_vars, event_vars, cal_vars>>

\* test_read_from_cache_corrupted_returns_none, lines 27-32: the folder is
\* made and a text file of two lines is written, with no key file
OutsideWriteText ==
    /\ ~file_t.exists
    /\ folder_exists' = TRUE
    /\ file_t' = File(T_url_user, TRUE)
    /\ Called([op |-> "outside"])
    /\ UNCHANGED <<file_b, parse_vars, dur_vars, event_vars, cal_vars>>

\* the key file is removed from outside
OutsideRemoveKey ==
    /\ file_b.exists
    /\ file_b' = Missing
    /\ Called([op |-> "outside"])
    /\ UNCHANGED <<folder_exists, file_t, parse_vars, dur_vars, event_vars, cal_vars>>

\* the permission to open a file is taken away from outside
OutsideProtect ==
    /\ \/ file_t.exists /\ file_t.ok
          /\ file_t' = [file_t EXCEPT !.ok = FALSE] /\ file_b' = file_b
       \/ file_b.exists /\ file_b.ok
          /\ file_b' = [file_b EXCEPT !.ok = FALSE] /\ file_t' = file_t
    /\ Called([op |-> "outside"])
    /\ UNCHANGED <<folder_exists, parse_vars, dur_vars, event_vars, cal_vars>>

NextCache ==
    \/ WriteToCache
    \/ ReadFromCache
    \/ OutsideWriteText
    \/ OutsideRemoveKey
    \/ OutsideProtect

SpecCache == InitCache /\ [][NextCache]_vars

\* the call is one of the operation op
IsCall(c, op) == "op" \in DOMAIN c /\ c.op = op

\* C12: after a write_to_cache that succeeds the folder holds the two cache
\* files, and a read_from_cache that follows it returns the url, username,
\* password and cipher_key that were written, also when the folder did not
\* exist before and when an earlier write stored other values.
Cex_C12_CacheRoundTrip ==
    /\ (IsCall(cache_seen.last, "write") /\ ~cache_seen.last.warned) =>
           folder_exists /\ file_t.exists /\ file_b.exists
    /\ (IsCall(cache_seen.last, "read") /\ IsCall(cache_seen.prev, "write")
        /\ ~cache_seen.prev.warned) =>
           cache_seen.last.out =
               Some(<<cache_seen.prev.url, cache_seen.prev.username,
                      cache_seen.prev.password, cache_seen.prev.cipher_key>>)

\* C13: read_from_cache returns None when the folder holds no text file; when
\* the text file is there and the key file is missing or cannot be read it
\* returns None and removes the text file; a read_from_cache that follows one
\* that returned None returns None as well.
Thm_C13_IncompleteCacheRemoved ==
    IsCall(cache_seen.last, "read") =>
        /\ ~cache_seen.last.file_t.exists =>
               (cache_seen.last.out = None /\ ~file_t.exists)
        /\ (cache_seen.last.file_t.exists /\ ReadRaises(cache_seen.last.file_b)) =>
               (cache_seen.last.out = None /\ ~file_t.exists)
        /\ (IsCall(cache_seen.prev, "read") /\ cache_seen.prev.out = None) =>
               cache_seen.last.out = None

\* a read of a text file with no key file, and the read that follows it
Wit_C13_ReadAfterIncomplete ==
    /\ IsCall(cache_seen.last, "read")
    /\ IsCall(cache_seen.prev, "read")
    /\ cache_seen.prev.file_t = File(T_url_user, TRUE)
    /\ cache_seen.prev.file_b = Missing
    /\ cache_seen.last.out = None

====
